---- MODULE Spec2Model ----
(***************************************************************************)
(* Model of the pws synchronisation engine.                                *)
(*                                                                         *)
(*  - ChainClientManager (client_manager.rs): the registry of RunningChain *)
(*    handles, guarded by one tokio Mutex, and try_spawn_chain.            *)
(*  - The ChainService command (main.rs): the parent chain's notification  *)
(*    handler that discovers chain ids, the bounded mpsc channel and the   *)
(*    consumer task that calls ensure_running.                             *)
(*  - The Watch command (main.rs): the notification handler that queries,  *)
(*    parses, diffs against CachedState and writes to the Supabase sink.   *)
(***************************************************************************)
EXTENDS Integers, Sequences, FiniteSets, TLC

(***************************************************************************)
(* Bounds of the model.                                                    *)
(***************************************************************************)
MaxOffers == 3

MaxApiCalls == 1

MaxCycles == 2

MaxRetryCycles == 3

MaxListLen == 2

MaxBacklog == 18

(***************************************************************************)
(* Program constants.                                                      *)
(***************************************************************************)
ChannelCapacity == 16

(***************************************************************************)
(* Values.                                                                 *)
(***************************************************************************)
NoChain == "none"

NoTask == "nobody"

NoHandle == 0

\* Chain id strings as they arrive on the discovery channel.  "aa" and "AA"
\* are two spellings of one hexadecimal hash; "zz" is not hexadecimal.
ChainStrs == {"aa", "AA", "bb", "zz"}

ChainIds == {"c_aa", "c_bb"}

\* Application id strings.  The ChainService command has parsed its own
\* app_id successfully (main.rs:429) before the consumer task exists.
AppStrs == {"app", "noapp"}

ConsumerTask == "consumer"

ApiTasks == {"api1"}

Tasks == {ConsumerTask} \cup ApiTasks

\* ChainId::from_str as used by ensure_running: hexadecimal digits are
\* accepted in either case, anything else is an error.
ParseChainId(s) ==
    CASE s = "aa" -> "c_aa"
      [] s = "AA" -> "c_aa"
      [] s = "bb" -> "c_bb"
      [] OTHER -> NoChain

\* id.parse() in Chain::application.
AppIdParses(a) == a = "app"

\* The app_id strings a task can pass to try_spawn_chain.
AppStrsOf(t) == IF t = ConsumerTask THEN {"app"} ELSE AppStrs

RECURSIVE SeqsUpTo(_, _)
SeqsUpTo(S, n) ==
    IF n = 0 THEN {<<>>}
    ELSE LET shorter == SeqsUpTo(S, n - 1)
         IN shorter \cup {Append(q, x) : q \in {r \in shorter : Len(r) = n - 1}, x \in S}

\* The lists a tournamentChains response can carry.
ChainLists == SeqsUpTo(ChainStrs, MaxOffers)

\* The outcomes of the tournamentChains query and of parsing its response.
ChainResponses ==
    {[tag |-> t, list |-> <<>>] : t \in {"qfail", "pfail"}}
        \cup {[tag |-> "ok", list |-> l] : l \in ChainLists}

VARIABLES
    clients,       \* ChainClientManager.clients: chain id -> handle (NoHandle: absent)
    lockOwner,     \* the task holding the registry Mutex guard
    taskPc,        \* per task: "idle", "locking", "connecting", "panicked"
    taskChain,     \* per task: chain id of the try_spawn_chain call in progress
    workers,       \* every RunningChain ever built; a handle is an index
    returned,      \* <<task, chain id, handle>>: what try_spawn_chain has returned
    outcome,       \* per task: how its last try_spawn_chain call ended
    failedSpawn,   \* <<task, chain id>>: the spawn attempts that have failed
    apiCalls,      \* per API task: ensure_running calls made
    chan,          \* the mpsc channel of main.rs:435
    consBatch,     \* the rest of the batch the consumer is iterating over
    parentPc,      \* parent handler: "waiting", "sending", "dead"
    parentMsg,     \* the list the parent handler is sending
    offered,       \* the chain id strings the parent handler has discovered, in order
    passed         \* the chain id strings the consumer has passed to ensure_running

mgrVars == <<clients, lockOwner, taskPc, taskChain, workers, returned, outcome,
             failedSpawn, apiCalls, chan, consBatch, parentPc, parentMsg, offered,
             passed>>

VARIABLES
    cache,         \* CachedState of the Watch command
    sink,          \* the Supabase tables, as the sink holds them
    pc,            \* where the Watch notification loop and handler are
    pending,       \* notifications buffered in the subscription stream
    cycles,        \* handler invocations started so far
    tRest,         \* tournaments of the response not yet iterated
    curT,          \* the tournament of the current loop iteration
    pRest,         \* entries of current_participants_map not yet iterated
    respL,         \* response_l
    respC,         \* response_c
    respM,         \* matches_data
    fetchedT,      \* the tournaments parsed in the current cycle
    step,          \* the diff made by the last step (NoStep if it made none):
                   \*   key, fetched value, cached entry before it, whether a write
                   \*   was attempted (wrote) and succeeded (ok), and whether the
                   \*   latest write attempt of this value for this key had failed
    log,           \* the sink writes attempted in the current cycle
    abortedBy,     \* the query or parse failure that ended the current cycle
    failedWrites,  \* record key -> the value whose latest write attempt failed
    remote,        \* which remote application the Watch command is pointed at
    cacheAtStart   \* the cache as it was when the current cycle started

syncVars == <<cache, sink, pc, pending, cycles, tRest, curT, pRest, respL, respC,
              respM, fetchedT, step, log, abortedBy, failedWrites, remote,
              cacheAtStart>>

vars == <<mgrVars, syncVars>>

(***************************************************************************)
(* ChainClientManager                                                      *)
(***************************************************************************)
MgrInit ==
    /\ clients = [c \in ChainIds |-> NoHandle]
    /\ lockOwner = NoTask
    /\ taskPc = [t \in Tasks |-> "idle"]
    /\ taskChain = [t \in Tasks |-> NoChain]
    /\ workers = <<>>
    /\ returned = {}
    /\ outcome = [t \in Tasks |-> "none"]
    /\ failedSpawn = {}
    /\ apiCalls = [t \in ApiTasks |-> 0]
    /\ chan = <<>>
    /\ consBatch = <<>>
    /\ parentPc = "waiting"
    /\ parentMsg = <<>>
    /\ offered = <<>>
    /\ passed = <<>>

\* Variant: the parse result is unwrapped.
ParseErrorUnwrapped == "panicked"

\* `if let Ok(chain_id) = ChainId::from_str(..)` has no else branch: on a
\* parse error ensure_running returns and its caller goes on.
ParseErrorIgnored == "idle"

\* ensure_running: parse the string, call try_spawn_chain only if it parses.
EnsureRunning(t, s) ==
    /\ taskPc[t] = "idle"
    /\ IF ParseChainId(s) = NoChain
         THEN /\ taskPc' = [taskPc EXCEPT ![t] = ParseErrorIgnored]
              /\ UNCHANGED taskChain
         ELSE /\ taskPc' = [taskPc EXCEPT ![t] = "locking"]
              /\ taskChain' = [taskChain EXCEPT ![t] = ParseChainId(s)]

\* A caller other than the discovery consumer calls ensure_running.
ApiEnsureRunning(t, s) ==
    /\ t \in ApiTasks
    /\ apiCalls[t] < MaxApiCalls
    /\ EnsureRunning(t, s)
    /\ apiCalls' = [apiCalls EXCEPT ![t] = @ + 1]
    /\ UNCHANGED <<clients, lockOwner, workers, returned, outcome, failedSpawn,
                   chan, consBatch, parentPc, parentMsg, offered,
                   passed, syncVars>>

\* Variant: the guard is dropped before the connection is awaited.
LockDroppedWhileConnecting(t) == NoTask

\* The guard `map` of try_spawn_chain lives until the function returns or
\* unwinds; this is the owner of the Mutex while the caller connects.
LockOwnerWhileConnecting(t) == t

\* Variant: the lookup is skipped.
RegistryAlwaysMiss(c) == FALSE

\* if let Some(rc) = map.get(&chain_id)
RegistryHit(c) == clients[c] # NoHandle

\* try_spawn_chain, lines 77-81: lock, look up, return the clone on a hit.
TryLock(t) ==
    /\ taskPc[t] = "locking"
    /\ lockOwner = NoTask
    /\ IF RegistryHit(taskChain[t])
         THEN /\ returned' = returned \cup {<<t, taskChain[t], clients[taskChain[t]]>>}
              /\ outcome' = [outcome EXCEPT ![t] = "handle"]
              /\ taskPc' = [taskPc EXCEPT ![t] = "idle"]
              /\ taskChain' = [taskChain EXCEPT ![t] = NoChain]
              /\ UNCHANGED lockOwner
         ELSE /\ lockOwner' = LockOwnerWhileConnecting(t)
              /\ taskPc' = [taskPc EXCEPT ![t] = "connecting"]
              /\ UNCHANGED <<returned, outcome, taskChain>>
    /\ UNCHANGED <<clients, workers, failedSpawn, apiCalls, chan, consBatch,
                   parentPc, parentMsg, offered,
                   passed, syncVars>>

\* Variant: the guard outlives the call.
GuardKept(t) == lockOwner

\* Dropping the guard releases the Mutex if this task owns it.
ReleasedBy(t) == IF lockOwner = t THEN NoTask ELSE lockOwner

\* try_spawn_chain, lines 84-85: either unwrap() panics (so does, at line 88
\* and before the insert, the subscribe().unwrap() of on_notification, with
\* the same effect).  The unwinding drops
\* the guard and ends the calling task; when that task is the discovery
\* consumer its receiver is dropped with it, which closes the channel.
SpawnPanics(t) ==
    /\ lockOwner' = ReleasedBy(t)
    /\ taskPc' = [taskPc EXCEPT ![t] = "panicked"]
    /\ outcome' = [outcome EXCEPT ![t] = "panic"]
    /\ failedSpawn' = failedSpawn \cup {<<t, taskChain[t]>>}
    /\ chan' = IF t = ConsumerTask THEN <<>> ELSE chan
    /\ consBatch' = IF t = ConsumerTask THEN <<>> ELSE consBatch
    /\ UNCHANGED <<clients, workers, returned, taskChain>>

\* RunningChain::new: no notification loop runs for it yet.
RunningChainNew(c) ==
    [chain |-> c, state |-> "created", subscribes |-> 0, cache |-> "default",
     listeners |-> 0]

\* Variant: the listener is not started.
ListenerNotStarted(w) == w

\* RunningChain::start_background_task: chain.on_notification spawns the
\* task of the notification loop; listeners counts the loops started.
StartBackgroundTask(w) == [w EXCEPT !.state = "listening", !.listeners = @ + 1]

\* try_spawn_chain, lines 87-92: build the RunningChain, start its listener,
\* insert it and return it.  `subscribes` counts the "mutation { subscribe }"
\* queries issued against the worker's application: lines 83-92 issue none;
\* `cache` is the ChainStateCache of RunningChain::new.
SpawnSucceeds(t) ==
    LET h == Len(workers) + 1
        c == taskChain[t]
    IN /\ workers' = Append(workers, StartBackgroundTask(RunningChainNew(c)))
       /\ clients' = [clients EXCEPT ![c] = h]
       /\ returned' = returned \cup {<<t, c, h>>}
       /\ outcome' = [outcome EXCEPT ![t] = "handle"]
       /\ lockOwner' = ReleasedBy(t)
       /\ taskPc' = [taskPc EXCEPT ![t] = "idle"]
       /\ taskChain' = [taskChain EXCEPT ![t] = NoChain]
       /\ UNCHANGED <<failedSpawn, chan, consBatch>>

\* try_spawn_chain, lines 83-93, from the registry miss on.
Connect(t, connOk, app) ==
    /\ taskPc[t] = "connecting"
    /\ IF connOk /\ AppIdParses(app) THEN SpawnSucceeds(t) ELSE SpawnPanics(t)
    /\ UNCHANGED <<apiCalls, parentPc, parentMsg, offered,
                   passed, syncVars>>

(***************************************************************************)
(* RunningChain::start_background_task                                     *)
(***************************************************************************)
\* The handler of a spawned worker: Ok(_) => todo!() panics inside the task
\* that runs the notification loop, Err(_) prints and returns.
BackgroundHandler(w, queryOk) ==
    IF queryOk THEN [w EXCEPT !.state = "dead"] ELSE w

\* Variant: the handler works on every RunningChain of the registry.
EveryRunningChain(h) == DOMAIN workers

\* `let this = Arc::clone(self)`: the RunningChain the handler closure of
\* worker h captures, the only one it has access to.
ThisOf(h) == {h}

WorkerNotification(h, queryOk) ==
    /\ h \in DOMAIN workers
    /\ workers[h].state = "listening"
    /\ workers' = [g \in DOMAIN workers |->
                      IF g \in ThisOf(h) THEN BackgroundHandler(workers[g], queryOk)
                                         ELSE workers[g]]
    /\ UNCHANGED <<clients, lockOwner, taskPc, taskChain, returned, outcome,
                   failedSpawn, apiCalls, chan, consBatch, parentPc, parentMsg,
                   offered,
                   passed, syncVars>>

(***************************************************************************)
(* ChainService: discovery producer and consumer                           *)
(***************************************************************************)
\* The discoveries a behaviour is followed for: MaxOffers strings of any
\* kind, and one-element lists of the id "aa" up to MaxBacklog strings when
\* nothing else was discovered before, which is what it takes to fill the
\* channel behind a consumer that is busy.
MayDiscover(list) ==
    \/ Len(offered) + Len(list) <= MaxOffers
    \/ /\ list = <<"aa">>
       /\ Len(offered) < MaxBacklog
       /\ \A i \in 1..Len(offered) : offered[i] = "aa"

\* Variant: the length of the list is not looked at.
NothingToSendUnlessParsed(r) == r.tag # "ok"

\* The handler reaches tx.send only with a response that was obtained
\* (else `return`), parsed (else None) and has tournament_chains.len() > 0.
NothingToSend(r) == r.tag # "ok" \/ Len(r.list) = 0

\* r is the result of the tournamentChains query: tag "qfail" (query error),
\* "pfail" (the response does not parse) or "ok" with the list of strings.
ParentNotification(r) ==
    /\ parentPc = "waiting"
    /\ MayDiscover(r.list)
    /\ offered' = offered \o r.list
    /\ IF NothingToSend(r)
         THEN UNCHANGED <<parentPc, parentMsg>>
         ELSE /\ parentPc' = "sending"
              /\ parentMsg' = r.list
    /\ UNCHANGED <<clients, lockOwner, taskPc, taskChain, workers, returned,
                   outcome, failedSpawn, apiCalls, chan, consBatch,
                   passed, syncVars>>

\* Variant: the error of send is dropped and the handler returns.
SendErrorIgnored == "waiting"

\* .expect("failed to send update") on the Err of send: the panic unwinds
\* through `f().await` and ends the task of the notification loop.
SendErrorExpected == "dead"

\* tx.send(..).await.expect(..): waits while the channel is full, panics
\* when the receiver is gone.
ParentSend ==
    /\ parentPc = "sending"
    /\ IF taskPc[ConsumerTask] = "panicked"
         THEN /\ parentPc' = SendErrorExpected
              /\ UNCHANGED chan
         ELSE /\ Len(chan) < ChannelCapacity
              /\ chan' = Append(chan, parentMsg)
              /\ parentPc' = "waiting"
    /\ parentMsg' = <<>>
    /\ UNCHANGED <<clients, lockOwner, taskPc, taskChain, workers, returned,
                   outcome, failedSpawn, apiCalls, consBatch, offered,
                   passed, syncVars>>

\* while let Some(chains) = rx.recv().await
ConsumerRecv ==
    /\ taskPc[ConsumerTask] = "idle"
    /\ consBatch = <<>>
    /\ chan # <<>>
    /\ consBatch' = Head(chan)
    /\ chan' = Tail(chan)
    /\ UNCHANGED <<clients, lockOwner, taskPc, taskChain, workers, returned,
                   outcome, failedSpawn, apiCalls, parentPc, parentMsg, offered,
                   passed, syncVars>>

\* for id in chains { client_manager.ensure_running(id, ..).await }
ConsumerEnsureRunning ==
    /\ consBatch # <<>>
    /\ EnsureRunning(ConsumerTask, Head(consBatch))
    /\ consBatch' = Tail(consBatch)
    /\ passed' = Append(passed, Head(consBatch))
    /\ UNCHANGED <<clients, lockOwner, workers, returned, outcome, failedSpawn,
                   apiCalls, chan, parentPc, parentMsg, offered,
                   syncVars>>

MgrNext ==
    \/ \E t \in ApiTasks, s \in ChainStrs : ApiEnsureRunning(t, s)
    \/ \E t \in Tasks : TryLock(t)
    \/ \E t \in Tasks : \E connOk \in BOOLEAN, app \in AppStrsOf(t) : Connect(t, connOk, app)
    \/ \E h \in 1..Len(workers), queryOk \in BOOLEAN : WorkerNotification(h, queryOk)
    \/ \E r \in ChainResponses : ParentNotification(r)
    \/ ParentSend
    \/ ConsumerRecv
    \/ ConsumerEnsureRunning



(***************************************************************************)
(* Values of the Watch command                                             *)
(***************************************************************************)
\* Option<T>: None is the empty sequence, Some(v) the sequence holding v.
None == <<>>

Some(v) == <<v>>

EmptyMap == [k \in {} |-> 0]

\* Variant: the map is replaced by the one entry.
PutAlone(m, k, v) == [x \in {k} |-> v]

\* HashMap::insert
Put(m, k, v) == [x \in DOMAIN m \cup {k} |-> IF x = k THEN v ELSE m[x]]

\* HashMap::get
Get(m, k) == IF k \in DOMAIN m THEN Some(m[k]) ELSE None

\* u64 counts the remote application reports.
CountValues == {5, 6}

\* Leaderboard rows; elo stands for the fields other than id.
LeaderboardValues == {[id |-> "a", elo |-> 10], [id |-> "b", elo |-> 20]}

\* MatchHistory values.
MatchValues ==
    {[you |-> "u1", opponent |-> "u2", blobHash |-> "h1"],
     [you |-> "u1", opponent |-> "u2", blobHash |-> "h2"]}

\* Option<TimeControl>::None of a Tournament
NoTimeControl == -1

\* Tournament values; tc is time_control.base_minutes (or NoTimeControl) and
\* stands for the fields other than tournament_id.
TournamentValues ==
    {[id |-> "t1", tc |-> NoTimeControl], [id |-> "t1", tc |-> 0], [id |-> "t2", tc |-> 3]}

\* TournamentParticipant values; elo stands for the PlayerInfo fields.
ParticipantValues ==
    {[id |-> "p1", elo |-> 100], [id |-> "p2", elo |-> 50]}

DistinctIds(q) == \A i, j \in 1..Len(q) : q[i].id = q[j].id => i = j

\* A response of app.query followed by serde_json::from_str: the query fails
\* ("qfail"), the response does not parse ("pfail") or it parses to a value.
Failures == {[tag |-> t, val |-> <<>>] : t \in {"qfail", "pfail"}}

\* allTournaments is a list of tournaments with distinct tournament ids.
TournamentResponses ==
    Failures \cup {[tag |-> "ok", val |-> l] :
                     l \in {q \in SeqsUpTo(TournamentValues, MaxListLen) : DistinctIds(q)}}

ParticipantResponses ==
    Failures \cup {[tag |-> "ok", val |-> l] : l \in SeqsUpTo(ParticipantValues, MaxListLen)}

LeaderboardResponses ==
    Failures \cup {[tag |-> "ok", val |-> l] :
                     l \in {q \in SeqsUpTo(LeaderboardValues, MaxListLen) : DistinctIds(q)}}

CountResponses == Failures \cup {[tag |-> "ok", val |-> n] : n \in CountValues}

\* matchHistoryLast is an Option<MatchHistory>.
MatchResponses ==
    Failures \cup {[tag |-> "ok", val |-> None]}
             \cup {[tag |-> "ok", val |-> Some(m)] : m \in MatchValues}

NoResponse == [tag |-> "none", val |-> <<>>]

\* The remote applications the handler is checked against:
\*   "scalar": reports no tournaments; counts, leaderboards and matches vary;
\*   "keyed":  tournaments and participants vary; its leaderboard query fails;
\*   "mixed":  one tournament with one participant, one count, one leaderboard
\*             and one match;
\*   "board":  every query succeeds; only the leaderboard varies, between
\*             an empty one and one entry.  It is followed for MaxRetryCycles
\*             cycles, the others for MaxCycles;
\*   "steady": reports no tournament or one, whose participants query fails
\*             or reports nobody; the count, the leaderboard and the last
\*             match never change.  It is followed for MaxRetryCycles cycles.
Remotes == {"scalar", "keyed", "mixed", "board", "steady"}

\* The number of notifications followed for a remote application.
CycleBound(app) == IF app \in {"board", "steady"} THEN MaxRetryCycles ELSE MaxCycles

\* The Watch command has not built its application yet.
NoRemote == "unset"

OkWith(S) == {[tag |-> "ok", val |-> v] : v \in S}

TournamentResponsesOf(app) ==
    CASE app = "scalar" -> Failures \cup OkWith({<<>>})
      [] app = "keyed" -> TournamentResponses
      [] app = "board" -> OkWith({<<>>})
      [] app = "steady" -> OkWith({<<>>, <<[id |-> "t1", tc |-> NoTimeControl]>>})
      [] OTHER -> Failures \cup OkWith({<<[id |-> "t1", tc |-> NoTimeControl]>>})

ParticipantResponsesOf(app) ==
    CASE app = "keyed" -> ParticipantResponses
      [] app = "steady" -> {r \in Failures : r.tag = "qfail"} \cup OkWith({<<>>})
      [] OTHER -> Failures \cup OkWith({<<[id |-> "p1", elo |-> 100]>>})

LeaderboardResponsesOf(app) ==
    CASE app = "scalar" -> LeaderboardResponses
      [] app = "keyed" -> {r \in Failures : r.tag = "qfail"}
      [] app = "board" -> OkWith({<<>>, <<[id |-> "a", elo |-> 10]>>})
      [] app = "steady" -> OkWith({<<>>})
      [] OTHER -> Failures \cup OkWith({<<[id |-> "a", elo |-> 10]>>})

CountResponsesOf(app) ==
    CASE app = "scalar" -> CountResponses
      [] app \in {"board", "steady"} -> OkWith({5})
      [] OTHER -> Failures \cup OkWith({5})

MatchResponsesOf(app) ==
    CASE app = "scalar" -> MatchResponses
      [] app \in {"board", "steady"} -> OkWith({None})
      [] OTHER -> Failures \cup OkWith({Some([you |-> "u1", opponent |-> "u2", blobHash |-> "h1"])})

NoStep == [kind |-> "none"]

(***************************************************************************)
(* Conversions to the rows sent to the sink                                *)
(***************************************************************************)
\* GameCount { id: "singleton", count: new_count.to_string() }
CountRecord(n) == [id |-> "singleton", count |-> ToString(n)]

\* Tournament::for_db: an absent time_control is flattened to 0.
TournamentForDb(t) ==
    [tournament_id |-> t.id,
     time_control_base_minutes |-> IF t.tc = NoTimeControl THEN 0 ELSE t.tc]

\* TournamentParticipant::for_db
ParticipantForDb(p, tournament_id) ==
    [id |-> p.id, tournament_id |-> tournament_id, player_elo |-> p.elo]

\* MatchHistory::for_db
MatchForDb(m) ==
    [player1Id |-> m.you, player2Id |-> m.opponent, blobHash |-> m.blobHash]

(***************************************************************************)
(* SupabaseClient: the effect of each HTTP call on a table of the sink.    *)
(* A table with a primary key is a map from key to row; httpOk tells       *)
(* whether the request reached the sink and was answered with success.     *)
(***************************************************************************)
\* SupabaseClient::upsert (Prefer: resolution=merge-duplicates)
Upsert(table, key, row, httpOk) ==
    IF httpOk THEN [ok |-> TRUE, table |-> Put(table, key, row)]
              ELSE [ok |-> FALSE, table |-> table]

\* SupabaseClient::insert_many into a table keyed by id: a row whose key
\* is already present makes the sink reject the whole request.
InsertMany(table, rows, httpOk) ==
    IF httpOk /\ DistinctIds(rows) /\ \A i \in 1..Len(rows) : rows[i].id \notin DOMAIN table
      THEN [ok |-> TRUE,
            table |-> [k \in DOMAIN table \cup {rows[i].id : i \in 1..Len(rows)} |->
                         IF k \in DOMAIN table THEN table[k]
                         ELSE (CHOOSE r \in {rows[i] : i \in 1..Len(rows)} : r.id = k)]]
      ELSE [ok |-> FALSE, table |-> table]

\* SupabaseClient::insert into matchHistory, whose key the sink generates:
\* the table is the sequence of rows inserted.
Insert(table, row, httpOk) ==
    IF httpOk THEN [ok |-> TRUE, table |-> Append(table, row)]
              ELSE [ok |-> FALSE, table |-> table]

\* SupabaseClient::delete_all
DeleteAll(table, httpOk) ==
    IF httpOk THEN [ok |-> TRUE, table |-> EmptyMap]
              ELSE [ok |-> FALSE, table |-> table]

\* A call made to the sink and its outcome.
DeleteCall(ok) == [op |-> "delete_all", ok |-> ok]

InsertManyCall(rows, ok) == [op |-> "insert_many", rows |-> rows, ok |-> ok]

\* Variant: insert_many is called whatever delete_all returned.
ReplaceAllInsertingAnyway(table, rows, deleteOk, insertOk) ==
    LET d == DeleteAll(table, deleteOk)
        i == InsertMany(d.table, rows, insertOk)
    IN [ok |-> d.ok /\ i.ok, table |-> i.table,
        calls |-> <<DeleteCall(d.ok), InsertManyCall(rows, i.ok)>>]

\* Leaderboard::replace_all: delete_all, then (`?`: only if that succeeded)
\* insert_many, whose result is the result; calls are the sink calls made.
ReplaceAll(table, rows, deleteOk, insertOk) ==
    LET d == DeleteAll(table, deleteOk)
        i == InsertMany(d.table, rows, insertOk)
    IN IF d.ok
         THEN [ok |-> i.ok, table |-> i.table,
               calls |-> <<DeleteCall(TRUE), InsertManyCall(rows, i.ok)>>]
         ELSE [ok |-> FALSE, table |-> d.table, calls |-> <<DeleteCall(FALSE)>>]


(***************************************************************************)
(* The Watch command: CachedState and the notification handler             *)
(***************************************************************************)
\* Keys of the records the handler synchronises.
CountKey == <<"count">>

LeaderboardKey == <<"leaderboard">>

MatchKey == <<"match">>

TournamentKey(tid) == <<"tournament", tid>>

ParticipantKey(tid, pid) == <<"participant", tid, pid>>

\* What the cache holds for a record, as an Option.
CacheEntry(c, key) ==
    CASE key = CountKey -> c.count
      [] key = LeaderboardKey -> c.leaderboard
      [] key = MatchKey -> c.matches
      [] key[1] = "tournament" -> Get(c.tournaments, key[2])
      [] OTHER -> IF key[2] \in DOMAIN c.participants
                    THEN Get(c.participants[key[2]], key[3])
                    ELSE None

SyncInit ==
    /\ cache = [count |-> None, leaderboard |-> None, matches |-> None,
                tournaments |-> EmptyMap, participants |-> EmptyMap]
    /\ sink = [gameCount |-> EmptyMap, leaderboard |-> EmptyMap, matchHistory |-> <<>>,
               tournaments |-> EmptyMap, tournament_participants |-> EmptyMap]
    /\ pc = "waiting"
    /\ pending = 0
    /\ cycles = 0
    /\ tRest = <<>>
    /\ curT = None
    /\ pRest = EmptyMap
    /\ respL = NoResponse
    /\ respC = NoResponse
    /\ respM = NoResponse
    /\ fetchedT = <<>>
    /\ step = NoStep
    /\ log = <<>>
    /\ abortedBy = "none"
    /\ failedWrites = EmptyMap
    /\ remote = NoRemote
    /\ cacheAtStart = cache

Init == MgrInit /\ SyncInit

\* Commands::Watch: the application is built from the ids of the command
\* line, the cache starts empty and the handler is registered.
Watch(app) ==
    /\ remote = NoRemote
    /\ remote' = app
    /\ UNCHANGED <<cache, sink, pc, pending, cycles, tRest, curT, pRest, respL, respC,
                   respM, fetchedT, step, log, abortedBy, failedWrites, mgrVars, cacheAtStart>>

\* The subscription stream buffers a notification of the chain.
NotificationArrives ==
    /\ remote # NoRemote
    /\ cycles + pending < CycleBound(remote)
    /\ pending' = pending + 1
    /\ UNCHANGED <<cache, sink, pc, cycles, tRest, curT, pRest, respL, respC, respM,
                   fetchedT, step, log, abortedBy, failedWrites, mgrVars, remote, cacheAtStart>>

\* Variant: the handler's future is spawned instead of awaited.
HandlerDetached == TRUE

\* `f().await` inside the while loop: the loop polls the stream again only
\* when the handler's future has completed.
HandlerAwaited == pc = "waiting"

\* Variant: next() yields the latest notification and discards the others.
StreamDrained(buffered) == 0

\* notifications.next() takes one notification off the stream.
StreamAfterNext(buffered) == buffered - 1

\* Chain::on_notification: notifications.next() yields, f() is called.
StartCycle ==
    /\ HandlerAwaited
    /\ pending > 0
    /\ pending' = StreamAfterNext(pending)
    /\ cycles' = cycles + 1
    /\ pc' = "qTournaments"
    /\ tRest' = <<>>
    /\ curT' = None
    /\ pRest' = EmptyMap
    /\ respL' = NoResponse
    /\ respC' = NoResponse
    /\ respM' = NoResponse
    /\ fetchedT' = <<>>
    /\ step' = NoStep
    /\ log' = <<>>
    /\ abortedBy' = "none"
    /\ cacheAtStart' = cache
    /\ UNCHANGED <<cache, sink, failedWrites, mgrVars, remote>>

\* Variant: a return on failure puts the cache back to what it was when
\* the cycle started.
CacheRolledBack == cacheAtStart

\* A `return` only drops cache_guard: the cache keeps what the cycle has
\* stored in it so far.
CacheAfterReturn == cache

\* `return` out of the handler: the loop of on_notification waits again.
Abort(kind) ==
    /\ pc' = "waiting"
    /\ abortedBy' = kind
    /\ step' = NoStep
    /\ cache' = CacheAfterReturn
    /\ UNCHANGED <<sink, log, failedWrites>>

\* The ghost record of a write attempt and of its outcome.
NoteWrite(fw, key, value, ok) ==
    IF ok THEN [k \in DOMAIN fw \ {key} |-> fw[k]] ELSE Put(fw, key, value)

\* Variant: every fetched value is written, whatever the cache holds.
AlwaysUpdate(cached, fetched) == TRUE

\* Some(cached) => cached != fetched, None => true; also the != of the
\* count and of the last match.
ShouldUpdate(cached, fetched) == cached # Some(fetched)

\* Variant: the cache entry is replaced whether or not the write succeeded.
AfterWriteAlways(cached, fetched, ok) == Some(fetched)

\* The cache entry after a write attempt: replaced only on Ok(_).
AfterWrite(cached, fetched, ok) == IF ok THEN Some(fetched) ELSE cached

\* Variant: the Err arm of a write returns from the handler.
ReturnOnWriteError(next) == "waiting"

\* Variant: a failed write of the count or of the leaderboard is attempted
\* again before the handler goes on.
RetryOnWriteError(next) == IF pc \in {"count", "leaderboard"} THEN pc ELSE next

\* `Err(e) => eprintln!(..)`: the Err arm of a write falls through to what
\* follows the match.
OnWriteError(next) == next

\* Where the handler goes after a diff: `should` tells whether a write was
\* attempted, `ok` whether it succeeded.
AfterDiff(should, ok, next) == IF should /\ ~ok THEN OnWriteError(next) ELSE next

\* Where the handler goes when the participants of a tournament are done.
AfterTournament(rest) == IF rest = <<>> THEN "qLeaderboard" ELSE "tournament"

\* Lines 222-238.
QueryTournaments(r) ==
    /\ pc = "qTournaments"
    /\ IF r.tag # "ok"
         THEN /\ Abort("tournaments")
              /\ UNCHANGED <<tRest, fetchedT>>
         ELSE /\ tRest' = r.val
              /\ fetchedT' = r.val
              /\ pc' = AfterTournament(r.val)
              /\ step' = NoStep
              /\ UNCHANGED <<cache, sink, log, abortedBy, failedWrites>>
    /\ UNCHANGED <<pending, cycles, curT, pRest, respL, respC, respM, mgrVars, remote, cacheAtStart>>

\* Lines 242-259: the diff and the upsert of one tournament.
TournamentStep(httpOk) ==
    /\ pc = "tournament"
    /\ LET t == Head(tRest)
           key == TournamentKey(t.id)
           cached == Get(cache.tournaments, t.id)
           should == ShouldUpdate(cached, t)
           w == Upsert(sink.tournaments, t.id, TournamentForDb(t), httpOk)
           after == AfterWrite(cached, t, w.ok)
       IN /\ step' = [kind |-> "tournament", key |-> key, fetched |-> t,
                      cached |-> cached, wrote |-> should, ok |-> should /\ w.ok,
                      retry |-> Get(failedWrites, key) = Some(t)]
          /\ IF should
               THEN /\ sink' = [sink EXCEPT !.tournaments = w.table]
                    /\ cache' = IF after = None THEN cache
                                ELSE [cache EXCEPT !.tournaments = Put(@, t.id, after[1])]
                    /\ log' = Append(log, [key |-> key, ok |-> w.ok])
                    /\ failedWrites' = NoteWrite(failedWrites, key, t, w.ok)
               ELSE UNCHANGED <<sink, cache, log, failedWrites>>
          /\ curT' = Some(t)
          /\ tRest' = Tail(tRest)
          /\ pc' = AfterDiff(should, w.ok, "qParticipants")
    /\ UNCHANGED <<pending, cycles, pRest, respL, respC, respM, fetchedT, abortedBy,
                   mgrVars, remote, cacheAtStart>>

\* into_iter().map(|p| (p.id.clone(), p)).collect(): a later entry of the
\* list replaces an earlier one with the same id.
ToMap(list) ==
    [k \in {list[i].id : i \in 1..Len(list)} |->
        LET last == CHOOSE i \in 1..Len(list) :
                       /\ list[i].id = k
                       /\ \A j \in 1..Len(list) : list[j].id = k => j <= i
        IN list[last]]

\* cache_guard.participants.entry(tournament_id).or_default()
OrDefault(m, k) == IF k \in DOMAIN m THEN m ELSE Put(m, k, EmptyMap)

\* Lines 261-286.
QueryParticipants(r) ==
    /\ pc = "qParticipants"
    /\ IF r.tag # "ok"
         THEN /\ Abort("participants")
              /\ UNCHANGED pRest
         ELSE /\ pRest' = ToMap(r.val)
              /\ cache' = [cache EXCEPT !.participants = OrDefault(@, curT[1].id)]
              /\ pc' = IF r.val = <<>> THEN AfterTournament(tRest) ELSE "participant"
              /\ step' = NoStep
              /\ UNCHANGED <<sink, log, abortedBy, failedWrites>>
    /\ UNCHANGED <<pending, cycles, tRest, curT, respL, respC, respM, fetchedT, mgrVars, remote, cacheAtStart>>

\* Lines 288-309: the diff and the upsert of one participant; the HashMap
\* is iterated in an unspecified order.
ParticipantStep(pid, httpOk) ==
    /\ pc = "participant"
    /\ pid \in DOMAIN pRest
    /\ LET p == pRest[pid]
           tid == curT[1].id
           key == ParticipantKey(tid, pid)
           cached == Get(cache.participants[tid], pid)
           should == ShouldUpdate(cached, p)
           w == Upsert(sink.tournament_participants, p.id, ParticipantForDb(p, tid), httpOk)
           after == AfterWrite(cached, p, w.ok)
           rest == [k \in DOMAIN pRest \ {pid} |-> pRest[k]]
       IN /\ step' = [kind |-> "participant", key |-> key, fetched |-> p,
                      cached |-> cached, wrote |-> should, ok |-> should /\ w.ok,
                      retry |-> Get(failedWrites, key) = Some(p)]
          /\ IF should
               THEN /\ sink' = [sink EXCEPT !.tournament_participants = w.table]
                    /\ cache' = IF after = None THEN cache
                                ELSE [cache EXCEPT !.participants[tid] = Put(@, pid, after[1])]
                    /\ log' = Append(log, [key |-> key, ok |-> w.ok])
                    /\ failedWrites' = NoteWrite(failedWrites, key, p, w.ok)
               ELSE UNCHANGED <<sink, cache, log, failedWrites>>
          /\ pRest' = rest
          /\ pc' = AfterDiff(should, w.ok,
                             IF DOMAIN rest = {} THEN AfterTournament(tRest) ELSE "participant")
    /\ UNCHANGED <<pending, cycles, tRest, curT, respL, respC, respM, fetchedT,
                   abortedBy, mgrVars, remote, cacheAtStart>>

\* Lines 312-319.
QueryLeaderboard(r) ==
    /\ pc = "qLeaderboard"
    /\ IF r.tag = "qfail"
         THEN /\ Abort("leaderboard")
              /\ UNCHANGED respL
         ELSE /\ respL' = r
              /\ pc' = "qCount"
              /\ step' = NoStep
              /\ UNCHANGED <<cache, sink, log, abortedBy, failedWrites>>
    /\ UNCHANGED <<pending, cycles, tRest, curT, pRest, respC, respM, fetchedT, mgrVars, remote, cacheAtStart>>

\* Lines 321-328.
QueryCount(r) ==
    /\ pc = "qCount"
    /\ IF r.tag = "qfail"
         THEN /\ Abort("count")
              /\ UNCHANGED respC
         ELSE /\ respC' = r
              /\ pc' = "qMatches"
              /\ step' = NoStep
              /\ UNCHANGED <<cache, sink, log, abortedBy, failedWrites>>
    /\ UNCHANGED <<pending, cycles, tRest, curT, pRest, respL, respM, fetchedT, mgrVars, remote, cacheAtStart>>

\* Variant: a matches response that does not parse ends the cycle, as the
\* other two do.
MatchParseErrorReturns(r) == r.tag = "pfail"

\* Lines 357-364, `Err(e) => { eprintln!(..); None }`: no response of the
\* matches query ends the cycle at its parsing.
MatchParseErrorEndsCycle(r) == FALSE

\* Lines 330-364: the matches query, then the parsing of the three
\* responses; a matches response that does not parse becomes None.
QueryMatches(r) ==
    /\ pc = "qMatches"
    /\ IF r.tag = "qfail"
         THEN /\ Abort("matches")
              /\ UNCHANGED respM
         ELSE /\ respM' = r
              /\ IF respL.tag = "pfail"
                   THEN Abort("leaderboard")
                   ELSE IF respC.tag = "pfail"
                          THEN Abort("count")
                          ELSE IF MatchParseErrorEndsCycle(r)
                                 THEN Abort("matches")
                                 ELSE /\ pc' = "count"
                                      /\ step' = NoStep
                                      /\ UNCHANGED <<cache, sink, log, abortedBy,
                                                     failedWrites>>
    /\ UNCHANGED <<pending, cycles, tRest, curT, pRest, respL, respC, fetchedT, mgrVars, remote, cacheAtStart>>

\* Lines 367-385.
CountStep(httpOk) ==
    /\ pc = "count"
    /\ LET new == respC.val
           should == ShouldUpdate(cache.count, new)
           w == Upsert(sink.gameCount, CountRecord(new).id, CountRecord(new), httpOk)
       IN /\ step' = [kind |-> "count", key |-> CountKey, fetched |-> new,
                      cached |-> cache.count, wrote |-> should, ok |-> should /\ w.ok,
                      retry |-> Get(failedWrites, CountKey) = Some(new)]
          /\ IF should
               THEN /\ sink' = [sink EXCEPT !.gameCount = w.table]
                    /\ cache' = [cache EXCEPT !.count = AfterWrite(@, new, w.ok)]
                    /\ log' = Append(log, [key |-> CountKey, ok |-> w.ok])
                    /\ failedWrites' = NoteWrite(failedWrites, CountKey, new, w.ok)
               ELSE UNCHANGED <<sink, cache, log, failedWrites>>
          /\ pc' = AfterDiff(should, w.ok, "leaderboard")
    /\ UNCHANGED <<pending, cycles, tRest, curT, pRest, respL, respC, respM, fetchedT,
                   abortedBy, mgrVars, remote, cacheAtStart>>

\* Variant: an empty fetched leaderboard is not written over an empty cache.
LeaderboardChangedUnlessBothEmpty(cached, new) ==
    cached # Some(new) /\ ~(cached = None /\ new = <<>>)

\* cache_guard.leaderboard.as_ref() != Some(&new_leaderboard): Vec equality.
LeaderboardChanged(cached, new) == cached # Some(new)

\* Lines 387-403.
LeaderboardStep(deleteOk, insertOk) ==
    /\ pc = "leaderboard"
    /\ LET new == respL.val
           should == LeaderboardChanged(cache.leaderboard, new)
           w == ReplaceAll(sink.leaderboard, new, deleteOk, insertOk)
       IN /\ step' = [kind |-> "leaderboard", key |-> LeaderboardKey, fetched |-> new,
                      cached |-> cache.leaderboard, wrote |-> should, ok |-> should /\ w.ok,
                      retry |-> Get(failedWrites, LeaderboardKey) = Some(new),
                      calls |-> IF should THEN w.calls ELSE <<>>]
          /\ IF should
               THEN /\ sink' = [sink EXCEPT !.leaderboard = w.table]
                    /\ cache' = [cache EXCEPT !.leaderboard = AfterWrite(@, new, w.ok)]
                    /\ log' = Append(log, [key |-> LeaderboardKey, ok |-> w.ok])
                    /\ failedWrites' = NoteWrite(failedWrites, LeaderboardKey, new, w.ok)
               ELSE UNCHANGED <<sink, cache, log, failedWrites>>
          /\ pc' = AfterDiff(should, w.ok, "match")
    /\ UNCHANGED <<pending, cycles, tRest, curT, pRest, respL, respC, respM, fetchedT,
                   abortedBy, mgrVars, remote, cacheAtStart>>

\* matches_data, then match_history.data.match_history_last (lines 357-364,
\* 405-406): the match to diff, if there is one.
NewMatch(resp) == IF resp.tag = "ok" THEN resp.val ELSE None

\* Lines 405-422; the handler returns after it.
MatchStep(httpOk) ==
    /\ pc = "match"
    /\ IF NewMatch(respM) = None
         THEN /\ step' = NoStep
              /\ UNCHANGED <<sink, cache, log, failedWrites>>
         ELSE LET new == NewMatch(respM)[1]
                  should == ShouldUpdate(cache.matches, new)
                  w == Insert(sink.matchHistory, MatchForDb(new), httpOk)
              IN /\ step' = [kind |-> "match", key |-> MatchKey, fetched |-> new,
                             cached |-> cache.matches, wrote |-> should,
                             ok |-> should /\ w.ok,
                             retry |-> Get(failedWrites, MatchKey) = Some(new)]
                 /\ IF should
                      THEN /\ sink' = [sink EXCEPT !.matchHistory = w.table]
                           /\ cache' = [cache EXCEPT !.matches = AfterWrite(@, new, w.ok)]
                           /\ log' = Append(log, [key |-> MatchKey, ok |-> w.ok])
                           /\ failedWrites' = NoteWrite(failedWrites, MatchKey, new, w.ok)
                      ELSE UNCHANGED <<sink, cache, log, failedWrites>>
    /\ pc' = "waiting"
    /\ UNCHANGED <<pending, cycles, tRest, curT, pRest, respL, respC, respM, fetchedT,
                   abortedBy, mgrVars, remote, cacheAtStart>>

SyncNext ==
    \/ \E app \in Remotes : Watch(app)
    \/ NotificationArrives
    \/ StartCycle
    \/ \E r \in TournamentResponsesOf(remote) : QueryTournaments(r)
    \/ \E httpOk \in BOOLEAN : TournamentStep(httpOk)
    \/ \E r \in ParticipantResponsesOf(remote) : QueryParticipants(r)
    \/ \E pid \in DOMAIN pRest, httpOk \in BOOLEAN : ParticipantStep(pid, httpOk)
    \/ \E r \in LeaderboardResponsesOf(remote) : QueryLeaderboard(r)
    \/ \E r \in CountResponsesOf(remote) : QueryCount(r)
    \/ \E r \in MatchResponsesOf(remote) : QueryMatches(r)
    \/ \E httpOk \in BOOLEAN : CountStep(httpOk)
    \/ \E deleteOk, insertOk \in BOOLEAN : LeaderboardStep(deleteOk, insertOk)
    \/ \E httpOk \in BOOLEAN : MatchStep(httpOk)

SpecMgr == Init /\ [][MgrNext]_vars

SpecSync == Init /\ [][SyncNext]_vars

(***************************************************************************)
(* Properties of the ChainClientManager and of the discovery pipeline      *)
(***************************************************************************)
WorkersOf(c) == {h \in DOMAIN workers : workers[h].chain = c}

\* C1: idempotent spawn.  Whatever the interleaving of try_spawn_chain calls,
\* at most one RunningChain (and so one background listener) is ever built
\* for a chain id, and every handle a call has returned for a chain id is
\* the one handle the registry holds for it.
C1_IdempotentSpawn ==
    /\ \A c \in ChainIds : Cardinality(WorkersOf(c)) <= 1
    /\ \A r \in returned : clients[r[2]] = r[3] /\ WorkersOf(r[2]) = {r[3]}

\* Two different tasks have called try_spawn_chain for one chain id and both
\* have got a handle.
C1_TwoCallersOneHandle ==
    \E r1, r2 \in returned : r1[1] # r2[1] /\ r1[2] = r2[2]

\* C5: a spawn that fails reports an error to its caller (which goes on),
\* adds no registry entry and leaves the registry lock free.
C5_SpawnFailureReported ==
    [][\A t \in Tasks :
          (\E c \in ChainIds : <<t, c>> \in failedSpawn' \ failedSpawn)
             => /\ outcome'[t] = "error"
                /\ taskPc'[t] = "idle"
                /\ clients' = clients
                /\ lockOwner' = NoTask]_vars

\* C6: a failed spawn attempt blacklists nothing: the discovery consumer and
\* the producer feeding it are still running afterwards, so that an id
\* offered later is attempted again.
C6_FailedSpawnBlacklistsNothing ==
    failedSpawn # {} => taskPc[ConsumerTask] # "panicked" /\ parentPc # "dead"

\* C8: the notification loop of a worker has no terminal state: every worker
\* started by start_background_task is still listening, whatever its handler
\* met in earlier notifications.
C8_WorkerNeverStops ==
    \A h \in DOMAIN workers : workers[h].state = "listening"

(***************************************************************************)
(* Properties of the Watch handler                                         *)
(***************************************************************************)
TournamentIds == {t.id : t \in TournamentValues}

ParticipantIds == {p.id : p \in ParticipantValues}

RecordKeys ==
    {CountKey, LeaderboardKey, MatchKey}
        \cup {TournamentKey(t) : t \in TournamentIds}
        \cup {ParticipantKey(t, p) : t \in TournamentIds, p \in ParticipantIds}

\* A write of the record was attempted in the current cycle.
Written(key) == \E i \in 1..Len(log) : log[i].key = key

\* C2: the cache entry of a record changes only in a step that has written
\* that very value to the sink successfully, and a step whose write fails
\* leaves the entry as it was.
C2_CacheChangesOnlyAfterSuccessfulWrite ==
    [][\A key \in RecordKeys :
          LET before == CacheEntry(cache, key)
              after == CacheEntry(cache', key)
              wrote == step'.kind # "none" /\ step'.key = key /\ step'.wrote
          IN /\ after # before =>
                   wrote /\ step'.ok /\ after = Some(step'.fetched)
                         /\ Len(log') = Len(log) + 1 /\ log'[Len(log')] = [key |-> key, ok |-> TRUE]
             /\ (wrote /\ ~step'.ok) => after = before]_vars

\* A write has failed for a record the cache already held a value of, and
\* the cache still holds that value.
C2_FailedWriteKeptCache ==
    /\ step.kind # "none"
    /\ step.wrote /\ ~step.ok
    /\ step.cached # None
    /\ CacheEntry(cache, step.key) = step.cached

\* What the sink holds, record kind by record kind.
CountDurable ==
    cache.count # None =>
        Get(sink.gameCount, "singleton") = Some(CountRecord(cache.count[1]))

LeaderboardDurable ==
    cache.leaderboard # None =>
        \A i \in 1..Len(cache.leaderboard[1]) :
            Get(sink.leaderboard, cache.leaderboard[1][i].id) = Some(cache.leaderboard[1][i])

MatchDurable ==
    cache.matches # None =>
        \E i \in 1..Len(sink.matchHistory) : sink.matchHistory[i] = MatchForDb(cache.matches[1])

TournamentsDurable ==
    \A tid \in DOMAIN cache.tournaments :
        Get(sink.tournaments, tid) = Some(TournamentForDb(cache.tournaments[tid]))

\* C3: whatever the cache holds for a record, the sink holds for it; stated
\* for the records the sink keys the way the cache does (the count, the
\* leaderboard, the last match, the tournaments).
C3_CacheNeverAheadOfSink ==
    /\ CountDurable
    /\ LeaderboardDurable
    /\ MatchDurable
    /\ TournamentsDurable

\* C4: when the latest write attempt of a value for a record has failed and
\* a later cycle fetches that value again, the diff reports it changed (the
\* cache entry differs from it) and the write is attempted again.
C4_FailedWriteIsRetried ==
    (step.kind # "none" /\ step.retry) =>
        step.wrote /\ step.cached # Some(step.fetched)

\* In the second cycle the count (or a participant) whose write had failed is
\* fetched again and written again.
C4_RetriedInNextCycle ==
    /\ cycles = 2
    /\ step.kind \in {"count", "participant"}
    /\ step.retry
    /\ step.wrote

\* C7: a query failure skips only its own kind.  When the matches query has
\* failed and the count and leaderboard responses parse, a count and a
\* leaderboard that differ from the cache have been written in that cycle.
C7_QueryFailureSkipsOnlyItsKind ==
    (pc = "waiting" /\ abortedBy = "matches" /\ respC.tag = "ok" /\ respL.tag = "ok") =>
        /\ cache.count # Some(respC.val) => Written(CountKey)
        /\ cache.leaderboard # Some(respL.val) => Written(LeaderboardKey)

\* Equality of two leaderboards by content, whatever the order.
SameContent(a, b) ==
    /\ Len(a) = Len(b)
    /\ {a[i] : i \in 1..Len(a)} = {b[i] : i \in 1..Len(b)}

\* C9: a fetched leaderboard with the entries of the cached one, in whatever
\* order, causes no leaderboard write and leaves the cached one in place.
C9_LeaderboardDiffIgnoresOrder ==
    (step.kind = "leaderboard" /\ step.cached # None
        /\ SameContent(step.cached[1], step.fetched)) =>
            ~step.wrote /\ cache.leaderboard = step.cached

\* C10: keyed diff minimality.  A tournament or participant upsert is issued
\* for a key exactly when the fetched value is absent from the cache or
\* differs from the cached one; so a fetched tournament that still differs
\* from the cache when the cycle is over has had its upsert attempted.
C10_KeyedDiffWritesExactlyTheChangedKeys ==
    /\ step.kind \in {"tournament", "participant"} =>
           (step.wrote <=> step.cached # Some(step.fetched))
    /\ (pc = "waiting" /\ cycles > 0) =>
           \A i \in 1..Len(fetchedT) :
               Get(cache.tournaments, fetchedT[i].id) # Some(fetchedT[i])
                   => Written(TournamentKey(fetchedT[i].id))

(***************************************************************************)
(* Count sync                                                              *)
(***************************************************************************)
\* The decimal numeral of a natural number, digit by digit.
Digit(d) == CASE d = 0 -> "0" [] d = 1 -> "1" [] d = 2 -> "2" [] d = 3 -> "3"
              [] d = 4 -> "4" [] d = 5 -> "5" [] d = 6 -> "6" [] d = 7 -> "7"
              [] d = 8 -> "8" [] OTHER -> "9"

RECURSIVE Decimal(_)
Decimal(n) == IF n < 10 THEN Digit(n) ELSE Decimal(n \div 10) \o Digit(n % 10)

\* The count writes attempted in the current cycle.
CountWrites == {i \in 1..Len(log) : log[i].key = CountKey}

\* C11: count sync.  With an empty count cache the count step issues exactly
\* one upsert, of the row with id "singleton" and the decimal numeral of the
\* fetched n, and on success the cache holds n; with n already cached the
\* step issues no count write and leaves the cache alone.
C11_CountSync ==
    step.kind = "count" =>
        /\ step.cached = None =>
              /\ step.wrote
              /\ Cardinality(CountWrites) = 1
              /\ step.ok =>
                    /\ sink.gameCount
                         = [k \in {"singleton"} |->
                               [id |-> "singleton", count |-> Decimal(step.fetched)]]
                    /\ cache.count = Some(step.fetched)
        /\ step.cached = Some(step.fetched) =>
              /\ ~step.wrote
              /\ CountWrites = {}
              /\ cache.count = step.cached

\* The first cycle has written n from an empty cache; the second cycle
\* fetches the same n and writes nothing.
C11_SameCountTwice ==
    /\ cycles = 2
    /\ step.kind = "count"
    /\ step.cached = Some(step.fetched)
    /\ ~step.wrote
    /\ Get(sink.gameCount, "singleton")
         = Some([id |-> "singleton", count |-> Decimal(step.fetched)])

(***************************************************************************)
(* Discovery: offers and workers                                           *)
(***************************************************************************)
\* Everything the parent handler has discovered has gone through the
\* channel and the consumer, whose last ensure_running call has returned.
Drained ==
    /\ parentPc = "waiting"
    /\ chan = <<>>
    /\ consBatch = <<>>
    /\ taskPc[ConsumerTask] = "idle"
    /\ passed = offered

\* The chain ids among the offered strings.
ValidOffered == {ParseChainId(offered[i]) : i \in 1..Len(offered)} \ {NoChain}

NoApiCalls == \A t \in ApiTasks : apiCalls[t] = 0

\* C12: once the consumer has drained the offers and no spawn has failed,
\* every valid id offered has exactly one worker, registered under it, and
\* (no other caller having asked) no other id has a worker.
C12_WorkersAreTheOfferedIds ==
    (Drained /\ failedSpawn = {}) =>
        \A c \in ChainIds :
            /\ c \in ValidOffered =>
                   clients[c] # NoHandle /\ WorkersOf(c) = {clients[c]}
            /\ (c \notin ValidOffered /\ NoApiCalls) =>
                   clients[c] = NoHandle /\ WorkersOf(c) = {}

\* Three offers have been drained: one id offered twice and another id.
C12_OfferedTwiceSpawnedOnce ==
    /\ Drained /\ failedSpawn = {}
    /\ Len(offered) = 3
    /\ \A i \in 1..3 : ParseChainId(offered[i]) # NoChain
    /\ ParseChainId(offered[1]) = ParseChainId(offered[2])
    /\ ParseChainId(offered[3]) # ParseChainId(offered[1])
    /\ Len(workers) = 2

(***************************************************************************)
(* Discovery under fair scheduling                                         *)
(***************************************************************************)
\* The tokio runtime keeps polling the tasks that can make progress: the
\* parent handler's send, the consumer loop, and every try_spawn_chain call
\* (the tokio Mutex hands the lock over in FIFO order).
MgrFairness ==
    /\ WF_vars(ParentSend)
    /\ WF_vars(ConsumerRecv)
    /\ WF_vars(ConsumerEnsureRunning)
    /\ \A t \in Tasks : WF_vars(TryLock(t))
    /\ \A t \in Tasks : WF_vars(\E connOk \in BOOLEAN, app \in AppStrsOf(t) : Connect(t, connOk, app))

SpecMgrFair == Init /\ [][MgrNext]_vars /\ MgrFairness

\* C13: no discovered identity is dropped: the k-th string discovered by the
\* parent handler is eventually the k-th string the consumer passes to
\* ensure_running.
C13_EveryDiscoveredIdIsPassed ==
    \A k \in 1..MaxOffers :
        (Len(offered) >= k) ~> (Len(passed) >= k /\ passed[k] = offered[k])

(***************************************************************************)
(* The notification loop of the Watch command                              *)
(***************************************************************************)
\* The steps of the handler, from the first query to the last write.
HandlerStep ==
    \/ \E r \in TournamentResponsesOf(remote) : QueryTournaments(r)
    \/ \E httpOk \in BOOLEAN : TournamentStep(httpOk)
    \/ \E r \in ParticipantResponsesOf(remote) : QueryParticipants(r)
    \/ \E pid \in DOMAIN pRest, httpOk \in BOOLEAN : ParticipantStep(pid, httpOk)
    \/ \E r \in LeaderboardResponsesOf(remote) : QueryLeaderboard(r)
    \/ \E r \in CountResponsesOf(remote) : QueryCount(r)
    \/ \E r \in MatchResponsesOf(remote) : QueryMatches(r)
    \/ \E httpOk \in BOOLEAN : CountStep(httpOk)
    \/ \E deleteOk, insertOk \in BOOLEAN : LeaderboardStep(deleteOk, insertOk)
    \/ \E httpOk \in BOOLEAN : MatchStep(httpOk)

\* The runtime keeps polling the loop's task, and every query and every
\* sink call is answered, with success or failure.
SyncFairness == WF_vars(StartCycle) /\ WF_vars(HandlerStep)

SpecSyncFair == Init /\ [][SyncNext]_vars /\ SyncFairness

\* C14: cycles of one worker never overlap: a cycle starts only when the
\* previous one has returned, and a step taken while a cycle is running
\* starts no other cycle.
C14_CyclesNeverOverlap ==
    [][/\ cycles' # cycles => (pc = "waiting" /\ cycles' = cycles + 1)
       /\ pc # "waiting" => cycles' = cycles]_vars

\* A second cycle is running, after the first one has written to the sink.
C14_SecondCycleRunning ==
    /\ cycles = 2
    /\ pc \notin {"waiting", "qTournaments"}
    /\ sink.gameCount # EmptyMap

\* C15: a notification delivered while a cycle is running stays buffered
\* and gets a cycle of its own: once n notifications have been delivered,
\* n cycles are eventually started.
C15_EveryNotificationGetsACycle ==
    \A n \in 1..MaxRetryCycles : (cycles + pending >= n) ~> (cycles >= n)

\* A notification is buffered while the first cycle is running.
C15_NotificationDuringCycle ==
    /\ cycles = 1
    /\ pc # "waiting"
    /\ pending = 1

(***************************************************************************)
(* try_spawn_chain on a registered chain id                                *)
(***************************************************************************)
\* C16: a try_spawn_chain call that finds its chain id in the registry
\* returns the registered handle and changes nothing else: the registry and
\* the workers are as before, no connection is attempted, no spawn fails and
\* the lock is free again.
C16_HitReturnsRegisteredHandle ==
    [][\A t \in Tasks :
          (taskPc[t] = "locking" /\ taskPc'[t] # "locking"
              /\ clients[taskChain[t]] # NoHandle) =>
                /\ taskPc'[t] = "idle"
                /\ outcome'[t] = "handle"
                /\ returned' = returned \cup {<<t, taskChain[t], clients[taskChain[t]]>>}
                /\ clients' = clients
                /\ workers' = workers
                /\ failedSpawn' = failedSpawn
                /\ lockOwner' = NoTask]_vars

\* The consumer has passed one chain id twice, in two spellings or one, and
\* its second call has returned: one worker exists.
C16_SecondCallHit ==
    /\ NoApiCalls
    /\ Len(passed) = 2
    /\ ParseChainId(passed[1]) # NoChain
    /\ ParseChainId(passed[1]) = ParseChainId(passed[2])
    /\ taskPc[ConsumerTask] = "idle"
    /\ outcome[ConsumerTask] = "handle"
    /\ Len(workers) = 1

(***************************************************************************)
(* Keys that disappear from a fetch                                        *)
(***************************************************************************)
\* The tournament ids of the current cycle's tournaments response.
FetchedIds == {fetchedT[i].id : i \in 1..Len(fetchedT)}

\* The keyed records: tournaments, and participants per tournament.
KeyedKeys == RecordKeys \ {CountKey, LeaderboardKey, MatchKey}

\* C17: no step removes a tournament or participant key from the cache or
\* its row from the sink, and a key's cache entry and sink row change only
\* in the step that has fetched that key; a key absent from the fetch keeps
\* both.
C17_AbsentKeysAreKept ==
    [][/\ \A key \in KeyedKeys :
             CacheEntry(cache, key) # None =>
                 /\ CacheEntry(cache', key) # None
                 /\ CacheEntry(cache', key) # CacheEntry(cache, key) =>
                        (step'.kind # "none" /\ step'.key = key)
       /\ \A tid \in DOMAIN sink.tournaments :
             /\ tid \in DOMAIN sink'.tournaments
             /\ sink'.tournaments[tid] # sink.tournaments[tid] =>
                    (step'.kind = "tournament" /\ step'.fetched.id = tid)
       /\ \A pid \in DOMAIN sink.tournament_participants :
             /\ pid \in DOMAIN sink'.tournament_participants
             /\ sink'.tournament_participants[pid] # sink.tournament_participants[pid] =>
                    (step'.kind = "participant" /\ step'.fetched.id = pid)]_vars

\* The second cycle has gone through a tournaments response that lacks a
\* tournament the cache holds with a participant; the tournament and the
\* participant are still in the cache and in the sink.
C17_CachedKeyNotFetched ==
    /\ cycles = 2
    /\ pc = "qLeaderboard"
    /\ \E tid \in DOMAIN cache.tournaments \ FetchedIds :
          /\ tid \in DOMAIN sink.tournaments
          /\ tid \in DOMAIN cache.participants
          /\ \E pid \in DOMAIN cache.participants[tid] :
                pid \in DOMAIN sink.tournament_participants

(***************************************************************************)
(* Records the remote side no longer reports                               *)
(***************************************************************************)
\* C18: deletions are never propagated: no step removes from the sink a row
\* of the count, leaderboard, tournaments or participants table or a match
\* already inserted.
C18_SinkNeverLosesARecord ==
    [][/\ DOMAIN sink.gameCount \subseteq DOMAIN sink'.gameCount
       /\ DOMAIN sink.leaderboard \subseteq DOMAIN sink'.leaderboard
       /\ DOMAIN sink.tournaments \subseteq DOMAIN sink'.tournaments
       /\ DOMAIN sink.tournament_participants \subseteq DOMAIN sink'.tournament_participants
       /\ Len(sink.matchHistory) <= Len(sink'.matchHistory)
       /\ \A i \in 1..Len(sink.matchHistory) : sink'.matchHistory[i] = sink.matchHistory[i]]_vars

(***************************************************************************)
(* Natural retry                                                           *)
(***************************************************************************)
\* The latest cycle has run to its end with every query, every parse and
\* every sink call succeeding.
CleanCycle ==
    /\ pc = "waiting"
    /\ cycles > 0
    /\ abortedBy = "none"
    /\ respM.tag = "ok"
    /\ \A i \in 1..Len(log) : log[i].ok

\* The rows of a leaderboard, by id.
RowsOf(l) == [k \in {l[i].id : i \in 1..Len(l)} |->
                 CHOOSE r \in {l[i] : i \in 1..Len(l)} : r.id = k]

\* The sink holds what the latest cycle has fetched.
SinkHoldsFetched ==
    /\ Get(sink.gameCount, "singleton") = Some(CountRecord(respC.val))
    /\ sink.leaderboard = RowsOf(respL.val)
    /\ respM.val # None =>
          \E i \in 1..Len(sink.matchHistory) : sink.matchHistory[i] = MatchForDb(respM.val[1])
    /\ \A i \in 1..Len(fetchedT) :
          Get(sink.tournaments, fetchedT[i].id) = Some(TournamentForDb(fetchedT[i]))

\* C19: natural retry converges.  Once the remote state is stable and every
\* query and sink call succeeds, every cycle is a clean cycle fetching the
\* same values, and after the first of them the diff finds nothing more to
\* write; so the sink converges exactly if a clean cycle, whatever failures
\* came before it, leaves the sink holding what it has fetched.
C19_CleanCycleBringsSinkUpToDate ==
    CleanCycle => SinkHoldsFetched

(***************************************************************************)
(* Repeating a write                                                       *)
(***************************************************************************)
\* The sink after the write of a diff step is issued to it (once more) and
\* succeeds: the call the handler makes for that record kind.
WriteAgain(s, st) ==
    CASE st.kind = "count" ->
           [s EXCEPT !.gameCount =
               Upsert(@, CountRecord(st.fetched).id, CountRecord(st.fetched), TRUE).table]
      [] st.kind = "leaderboard" ->
           [s EXCEPT !.leaderboard = ReplaceAll(@, st.fetched, TRUE, TRUE).table]
      [] st.kind = "match" ->
           [s EXCEPT !.matchHistory = Insert(@, MatchForDb(st.fetched), TRUE).table]
      [] st.kind = "tournament" ->
           [s EXCEPT !.tournaments =
               Upsert(@, st.fetched.id, TournamentForDb(st.fetched), TRUE).table]
      [] OTHER ->
           [s EXCEPT !.tournament_participants =
               Upsert(@, st.fetched.id, ParticipantForDb(st.fetched, st.key[2]), TRUE).table]

\* C20: every write is safe to repeat: right after a write has succeeded,
\* issuing the same write again leaves the sink as it is.
C20_WritesAreIdempotent ==
    (step.kind # "none" /\ step.wrote /\ step.ok) => WriteAgain(sink, step) = sink

(***************************************************************************)
(* Malformed chain id strings                                              *)
(***************************************************************************)
\* C21: a malformed chain id string fails only its own ensure_running call:
\* the step in which the consumer passes one leaves the registry, the
\* workers, the lock and the failed spawns as they were, attempts no
\* connection, and leaves the consumer ready for the rest of the batch and
\* for the batches still in the channel.
C21_MalformedIdFailsOnlyItself ==
    [][(Len(passed') = Len(passed) + 1
          /\ ParseChainId(passed'[Len(passed')]) = NoChain) =>
             /\ clients' = clients
             /\ workers' = workers
             /\ lockOwner' = lockOwner
             /\ failedSpawn' = failedSpawn
             /\ taskPc'[ConsumerTask] = "idle"
             /\ taskChain'[ConsumerTask] = NoChain
             /\ consBatch' = Tail(consBatch)
             /\ chan' = chan]_vars

\* After a malformed string the consumer has passed two valid ids offered
\* after it: the first has got its worker, the call for the second is on.
C21_IdsAfterMalformedProcessed ==
    /\ NoApiCalls
    /\ Len(passed) = 3
    /\ ParseChainId(passed[1]) = NoChain
    /\ ParseChainId(passed[2]) # NoChain
    /\ clients[ParseChainId(passed[2])] # NoHandle
    /\ ParseChainId(passed[3]) # NoChain
    /\ consBatch = <<>>
    /\ parentPc = "waiting"
    /\ Len(workers) = 1
    /\ taskPc[ConsumerTask] = "locking"

(***************************************************************************)
(* The initial subscribe                                                   *)
(***************************************************************************)
\* C22: every worker has issued exactly one subscribe mutation against its
\* chain's application by the time its notification loop is listening.
C22_OneSubscribePerWorker ==
    \A h \in DOMAIN workers : workers[h].subscribes = 1

ScalarWrites == {i \in 1..Len(log) : log[i].key \in {CountKey, LeaderboardKey, MatchKey}}

\* The response of one of the three scalar queries has not parsed.
ScalarParseFailure ==
    respL.tag = "pfail" \/ respC.tag = "pfail" \/ respM.tag = "pfail"

\* C24: a parse failure has the effect of a query failure of the same kind.
\* A cycle in which the leaderboard, count or matches query fails ends
\* without diffing or writing any of the three kinds; so does a cycle in
\* which the response of one of them does not parse.
C24_ParseFailureLikeQueryFailure ==
    (pc = "waiting" /\ cycles > 0) =>
        /\ abortedBy \in {"leaderboard", "count", "matches"} => ScalarWrites = {}
        /\ ScalarParseFailure => ScalarWrites = {}

(***************************************************************************)
(* Failed writes and the rest of the cycle                                 *)
(***************************************************************************)
\* A write of the record was attempted in the current cycle and failed.
FailedWrite(key) == \E i \in 1..Len(log) : log[i].key = key /\ ~log[i].ok

\* The diff of a fetched value against a cache entry has been made: the
\* entry holds the value, or the write of the record was attempted.
Diffed(key, value) == CacheEntry(cache, key) = Some(value) \/ Written(key)

\* The handler is past the loop over the fetched tournaments.
TournamentLoopDone ==
    /\ cycles > 0
    /\ pc \in {"qLeaderboard", "qCount", "qMatches", "count", "leaderboard", "match"}

\* C25: a failed write does not abort the rest of the cycle.  A cycle whose
\* count write has failed still diffs the leaderboard and the match; a
\* tournaments loop in which an upsert has failed still diffs every fetched
\* tournament; and after a failed participant upsert the loop over the
\* participants goes on with those that remain.
C25_FailedWriteDoesNotAbort ==
    /\ (pc = "waiting" /\ cycles > 0 /\ FailedWrite(CountKey)) =>
          /\ Diffed(LeaderboardKey, respL.val)
          /\ NewMatch(respM) # None => Diffed(MatchKey, NewMatch(respM)[1])
    /\ (TournamentLoopDone /\ \E t \in TournamentIds : FailedWrite(TournamentKey(t))) =>
          \A i \in 1..Len(fetchedT) : Diffed(TournamentKey(fetchedT[i].id), fetchedT[i])
    /\ (step.kind = "participant" /\ step.wrote /\ ~step.ok) =>
          /\ abortedBy = "none"
          /\ pc = IF DOMAIN pRest = {} THEN AfterTournament(tRest) ELSE "participant"

\* A cycle has run to its end in which the count write failed and the
\* leaderboard write that followed it succeeded.
C25_LeaderboardWrittenAfterFailedCount ==
    /\ pc = "waiting"
    /\ FailedWrite(CountKey)
    /\ \E i \in 1..Len(log) : log[i].key = LeaderboardKey /\ log[i].ok

(***************************************************************************)
(* Write attempts of one cycle                                             *)
(***************************************************************************)
\* The write attempts the current cycle has made for the record.
Attempts(key) == {i \in 1..Len(log) : log[i].key = key}

AtQuery == pc \in {"qTournaments", "qParticipants", "qLeaderboard", "qCount", "qMatches"}

\* The step is a diff in which the fetched value equals the cached one.
EqualDiff ==
    /\ pc \in {"tournament", "participant", "count", "leaderboard", "match"}
    /\ step'.kind # "none"
    /\ step'.cached = Some(step'.fetched)

\* No call to the sink is made in the step.
NoSinkCall == log' = log /\ sink' = sink

\* A cycle has run to its end and none of its diffs found a fetched value
\* that differs from the cached one.
EqualCycle == pc = "waiting" /\ cycles > 0 /\ log = <<>>

\* C27 as stated: minimal writes.  A step of a cycle that is a query, or a
\* diff in which the fetched value equals the cached one, issues no call to
\* the sink; and a cycle in which every fetched value equals the
\* corresponding cached value ends with the cache it started with.
C27_EqualCycleLeavesCacheUnchanged ==
    [][/\ (AtQuery \/ EqualDiff) => NoSinkCall
       /\ EqualCycle' => cache' = cacheAtStart']_vars

\* The cache holds for every record what it held when the cycle started.
CacheEntriesUnchanged ==
    \A k \in RecordKeys : CacheEntry(cache, k) = CacheEntry(cacheAtStart, k)

\* C27, amended: such a step issues no call to the sink, and such a cycle
\* leaves every entry of the cache unchanged; the cache may gain an empty
\* participant map for a fetched tournament that had none.
C27_EqualCycleLeavesEntriesUnchanged ==
    [][/\ (AtQuery \/ EqualDiff) => NoSinkCall
       /\ EqualCycle' => CacheEntriesUnchanged']_vars

\* A second cycle has run to its end without a write, the count and the
\* leaderboard it fetched being the cached ones.
C27_CycleWithoutWrites ==
    /\ pc = "waiting"
    /\ cycles = 2
    /\ abortedBy = "none"
    /\ log = <<>>
    /\ cache.count = Some(respC.val)
    /\ cache.leaderboard = Some(respL.val)

(***************************************************************************)
(* The two calls of replace-all                                            *)
(***************************************************************************)
\* The last step was the diff of a leaderboard that differs from the cache.
LeaderboardReplaced == step.kind = "leaderboard" /\ step.wrote

\* C28: a changed leaderboard is written as two sequential sink calls:
\* delete-all first, then one bulk insert of the whole fetched collection.
\* The bulk insert is attempted only if the delete succeeded; when the
\* insert fails after a successful delete no further call is made, the
\* replace-all reports failure and the cached leaderboard is unchanged.
C28_ReplaceAllIsDeleteThenInsert ==
    LeaderboardReplaced =>
        LET calls == step.calls
        IN /\ Len(calls) \in {1, 2}
           /\ calls[1].op = "delete_all"
           /\ Len(calls) = 2 <=> calls[1].ok
           /\ Len(calls) = 2 =>
                /\ calls[2] = InsertManyCall(step.fetched, step.ok)
                /\ ~calls[2].ok =>
                     /\ sink.leaderboard = EmptyMap
                     /\ cache.leaderboard = step.cached
           /\ step.ok <=> (Len(calls) = 2 /\ calls[2].ok)
           /\ ~step.ok => cache.leaderboard = step.cached

\* A replace-all of a cached leaderboard whose delete succeeded and whose
\* insert failed.
C28_InsertFailedAfterDelete ==
    /\ LeaderboardReplaced
    /\ step.cached # None
    /\ Len(step.calls) = 2
    /\ step.calls[1].ok
    /\ ~step.calls[2].ok

(***************************************************************************)
(* The registry lock during a connection                                   *)
(***************************************************************************)
\* A caller asking for a registered id is at the lock while another caller,
\* connecting to another id, owns it.
RegisteredCallerWaits ==
    \E t, u \in Tasks :
        /\ taskPc[t] = "locking"
        /\ RegistryHit(taskChain[t])
        /\ taskPc[u] = "connecting"
        /\ taskChain[u] # taskChain[t]
        /\ lockOwner = u

\* C29: on a registry miss try_spawn_chain connects while not holding the
\* registry lock, so that a call for an already registered id never waits
\* for another id's connection to complete.
C29_ConnectionOutsideTheLock ==
    /\ \A u \in Tasks : taskPc[u] = "connecting" => lockOwner # u
    /\ ~RegisteredCallerWaits

(***************************************************************************)
(* The order of the record kinds within a cycle                            *)
(***************************************************************************)
\* The place of a record's kind in the order count, leaderboard, matches,
\* tournaments with their participants.
KindRank(key) ==
    CASE key = CountKey -> 1
      [] key = LeaderboardKey -> 2
      [] key = MatchKey -> 3
      [] OTHER -> 4

\* The kinds among count, leaderboard and matches whose query the current
\* cycle has made.
QueriedRanks == {r \in 1..3 : <<respC, respL, respM>>[r] # NoResponse}

\* C30: every cycle processes the record kinds in the same fixed order:
\* count, then leaderboard, then matches, then tournaments with their
\* participants.  The writes of a cycle follow that order, and no write for
\* a later kind precedes the query of an earlier kind.
C30_KindsInFixedOrder ==
    /\ \A i, j \in 1..Len(log) : i < j => KindRank(log[i].key) <= KindRank(log[j].key)
    /\ \A i \in 1..Len(log) : \A r \in 1..3 :
          r < KindRank(log[i].key) => r \in QueriedRanks

(***************************************************************************)
(* The registry over time                                                  *)
(***************************************************************************)
\* C31: the registry only grows.  Once a handle is registered for a chain
\* id, every later state maps that id to the same handle: no step removes
\* or replaces a registry entry.
C31_RegistryOnlyGrows ==
    [][\A c \in ChainIds : clients[c] # NoHandle => clients'[c] = clients[c]]_vars

\* The first handle is still registered after a second chain was spawned
\* and after a caller asked again for the first one's id.
C31_FirstEntryKeptAfterSecondSpawn ==
    /\ Len(workers) >= 2
    /\ \E c \in ChainIds :
          /\ clients[c] = 1
          /\ \E t, u \in Tasks : t # u /\ <<t, c, 1>> \in returned /\ <<u, c, 1>> \in returned

(***************************************************************************)
(* The discovery pipeline after the consumer has terminated                *)
(***************************************************************************)
ConsumerTerminated == taskPc[ConsumerTask] = "panicked"

\* C32: once the discovery consumer has terminated it stays terminated, it
\* passes no further id to ensure_running and the channel takes no message,
\* so that (no other caller asking) no chain is spawned afterwards; the send
\* of the next notification that discovers a non-empty list fails and ends
\* the parent chain's notification loop, which handles nothing afterwards.
C32_NothingSpawnedAfterConsumerDied ==
    [][ConsumerTerminated =>
          /\ ConsumerTerminated'
          /\ passed' = passed
          /\ chan' = <<>>
          /\ NoApiCalls => (Len(workers') = Len(workers) /\ clients' = clients)
          /\ (parentPc = "sending" /\ parentPc' # "sending") => parentPc' = "dead"
          /\ parentPc = "dead" => (parentPc' = "dead" /\ offered' = offered)]_vars

\* The consumer has terminated, and a notification that came after the one
\* whose batch it was handling has ended the parent's loop.
C32_ParentLoopEndedAfterConsumer ==
    /\ ConsumerTerminated
    /\ parentPc = "dead"
    /\ NoApiCalls
    /\ Len(offered) > Len(passed)

(***************************************************************************)
(* The full channel                                                        *)
(***************************************************************************)
\* The parent handler waits in send: the channel is full and its receiver
\* is alive.
ParentBlocked ==
    /\ parentPc = "sending"
    /\ Len(chan) = ChannelCapacity
    /\ ~ConsumerTerminated

\* A step of the consumer task.
ConsumerStep ==
    \/ ConsumerRecv
    \/ ConsumerEnsureRunning
    \/ TryLock(ConsumerTask)
    \/ \E connOk \in BOOLEAN, app \in AppStrsOf(ConsumerTask) : Connect(ConsumerTask, connOk, app)

\* The consumer waits for the registry lock while another caller of
\* ensure_running, which is connecting, owns it.
ConsumerWaitsForCaller ==
    /\ taskPc[ConsumerTask] = "locking"
    /\ lockOwner \in ApiTasks
    /\ taskPc[lockOwner] = "connecting"

\* C33: the discovery pipeline cannot deadlock.  Whenever the parent handler
\* is blocked sending to the full channel the consumer task can take a step,
\* or waits for the registry lock owned by another caller that is connecting
\* (never for the producer, which takes no lock); and, every spawn attempt
\* terminating, the blocked send eventually completes.
C33_PipelineCannotDeadlock ==
    /\ [](ParentBlocked => (ENABLED ConsumerStep \/ ConsumerWaitsForCaller))
    /\ ParentBlocked ~> (parentPc # "sending")

\* The parent is blocked on the full channel while the consumer is inside
\* try_spawn_chain for the batch it took.
C33_BlockedWhileConsumerSpawns ==
    /\ ParentBlocked
    /\ taskPc[ConsumerTask] = "connecting"

(***************************************************************************)
(* The first leaderboard diff                                              *)
(***************************************************************************)
\* C34: a leaderboard diff made while the cached leaderboard is None (as it
\* is from the start until a replace-all succeeds) always issues a
\* replace-all, whose first call is the delete-all of the sink's leaderboard
\* table, even when the fetched leaderboard is empty or is what the sink
\* already holds.
C34_FirstLeaderboardDiffAlwaysWrites ==
    (step.kind = "leaderboard" /\ step.cached = None) =>
        /\ step.wrote
        /\ Len(step.calls) >= 1
        /\ step.calls[1].op = "delete_all"

\* The first diff fetched an empty leaderboard while the sink's table was
\* empty, and the delete-all was sent.
C34_EmptyLeaderboardWritten ==
    /\ step.kind = "leaderboard"
    /\ cycles = 1
    /\ step.cached = None
    /\ step.fetched = <<>>
    /\ step.calls # <<>>
    /\ sink.leaderboard = EmptyMap

(***************************************************************************)
(* Participants of a tournament whose upsert failed                        *)
(***************************************************************************)
\* C35: participant processing does not depend on the outcome of the
\* tournament's own upsert.  After a failed tournament upsert the handler
\* goes on to query the participants of that tournament, and a participant
\* that differs from its cache entry is upserted whatever the sink holds
\* for the tournament.
C35_ParticipantsIgnoreTournamentOutcome ==
    /\ (step.kind = "tournament" /\ step.wrote /\ ~step.ok) =>
          /\ pc = "qParticipants"
          /\ curT = Some(step.fetched)
    /\ (step.kind = "participant" /\ step.cached # Some(step.fetched)) => step.wrote

\* A participant row was sent for a tournament whose upsert failed in the
\* same cycle and whose row the sink does not hold.
C35_ParticipantSentWithoutTournament ==
    \E t \in TournamentIds, p \in ParticipantIds :
        /\ FailedWrite(TournamentKey(t))
        /\ t \notin DOMAIN sink.tournaments
        /\ Written(ParticipantKey(t, p))

(***************************************************************************)
(* What an aborted cycle leaves behind                                     *)
(***************************************************************************)
\* The record was written successfully in the current cycle.
WrittenOk(key) == \E i \in 1..Len(log) : log[i].key = key /\ log[i].ok

\* The cache entry of the record is not what it was when the cycle started.
EntryChanged(key) == CacheEntry(cache, key) # CacheEntry(cacheAtStart, key)

\* C36: when a cycle is aborted part-way by a query or parse failure, the
\* step that aborts it changes neither the sink nor the cache, the cache
\* entries of the records written successfully earlier in the cycle keep
\* their new values, and every other cache entry -- those of the kinds not
\* yet reached among them -- is exactly as it was before the cycle.
C36_AbortKeepsEarlierWrites ==
    [][abortedBy' # "none" =>
          /\ abortedBy = "none" => (cache' = cache /\ sink' = sink)
          /\ \A k \in RecordKeys : EntryChanged(k)' <=> WrittenOk(k)'
          /\ \A k \in {CountKey, LeaderboardKey, MatchKey} : ~EntryChanged(k)']_vars

\* A cycle that had stored a tournament was aborted by a failure of the
\* participants query, in a run whose cache held a count already.
C36_AbortedAfterTournamentWrite ==
    /\ abortedBy = "participants"
    /\ \E t \in TournamentIds : WrittenOk(TournamentKey(t)) /\ EntryChanged(TournamentKey(t))
    /\ cache.count # None

(***************************************************************************)
(* A cycle without a last match                                            *)
(***************************************************************************)
\* The handler has returned from a cycle whose leaderboard and count
\* responses parsed and whose matches response reported no last match or
\* did not parse.
CycleWithoutMatch ==
    /\ pc = "waiting"
    /\ cycles > 0
    /\ respL.tag = "ok"
    /\ respC.tag = "ok"
    /\ respM.tag \in {"ok", "pfail"}
    /\ NewMatch(respM) = None

\* C37: when the matches response parses but reports no last match, or does
\* not parse, the cycle issues no match write and leaves the cached last
\* match unchanged, while count and leaderboard are still diffed and written.
C37_NoMatchNoMatchWrite ==
    CycleWithoutMatch =>
        /\ ~Written(MatchKey)
        /\ cache.matches = cacheAtStart.matches
        /\ Diffed(CountKey, respC.val)
        /\ Diffed(LeaderboardKey, respL.val)

\* Such a cycle, whose matches response did not parse, has written the
\* count and the leaderboard while a last match was cached.
C37_ScalarsWrittenAfterMatchParseFailure ==
    /\ CycleWithoutMatch
    /\ respM.tag = "pfail"
    /\ cache.matches # None
    /\ WrittenOk(CountKey)
    /\ WrittenOk(LeaderboardKey)

(***************************************************************************)
(* What a parent-chain notification puts on the channel                    *)
(***************************************************************************)
\* The notification's query failed, its response did not parse or its
\* chain list is empty.
Quiet(r) == r.tag \in {"qfail", "pfail"} \/ r.list = <<>>

\* C38: a parent-chain notification whose tournamentChains query fails,
\* whose response does not parse or whose list is empty puts nothing on the
\* discovery channel and causes no ensure_running call: it leaves the
\* producer, the channel and the consumer as they were.  Every other
\* notification sends its whole list, and the channel grows only by
\* that one message.
C38_OneMessagePerNonEmptyDiscovery ==
    [][/\ \A r \in ChainResponses : (Quiet(r) /\ ParentNotification(r)) =>
              UNCHANGED <<parentPc, parentMsg, chan, consBatch, passed, taskPc>>
       /\ \A r \in ChainResponses : (~Quiet(r) /\ ParentNotification(r)) =>
              /\ parentPc' = "sending"
              /\ parentMsg' = r.list
              /\ UNCHANGED <<chan, consBatch, passed, taskPc>>
       /\ Len(chan') > Len(chan) =>
              /\ parentPc = "sending"
              /\ chan' = Append(chan, parentMsg)
              /\ parentPc' = "waiting"]_vars

\* Two non-empty discoveries have put two messages on the channel, the
\* first carrying a list of two ids.
C38_TwoDiscoveriesTwoMessages ==
    /\ Len(chan) = 2
    /\ Len(chan[1]) = 2
    /\ offered = chan[1] \o chan[2]
    /\ parentPc = "waiting"

(***************************************************************************)
(* Registered handles and their listeners                                  *)
(***************************************************************************)
\* C39: every handle visible in the registry, and every handle a caller has
\* obtained, has had its notification listener started exactly once; a
\* handle enters the registry only in a step of the caller that owns the
\* registry lock and is past the connection, which then releases the lock.
C39_RegisteredHandleHasListener ==
    [][/\ \A c \in ChainIds :
              clients'[c] # NoHandle => workers'[clients'[c]].listeners = 1
       /\ \A r \in returned' : workers'[r[3]].listeners = 1
       /\ clients' # clients =>
              /\ lockOwner \in Tasks
              /\ taskPc[lockOwner] = "connecting"
              /\ lockOwner' = NoTask]_vars

\* A caller obtained on a registry hit the handle another caller had
\* registered, and its listener had been started.
C39_HitHandleIsListening ==
    \E t, u \in Tasks, c \in ChainIds :
        /\ t # u
        /\ clients[c] # NoHandle
        /\ <<t, c, clients[c]>> \in returned
        /\ <<u, c, clients[c]>> \in returned
        /\ workers[clients[c]].listeners = 1

====
